---- MODULE Spec2Model ----
(***************************************************************************)
(* Page-replacement simulator (src/app.js): the SimulationLogic engine     *)
(* (FIFO, LRU, Optimal), and the application that runs it and replays the  *)
(* resulting history through the Animator.                                 *)
(*                                                                         *)
(* Conventions.  A JavaScript array is a TLA+ sequence; the JavaScript     *)
(* index i is position i + 1 of the sequence.  Operators that return an    *)
(* index (IndexOf) return the JavaScript, 0-based, index and -1 for "not   *)
(* found", as the code does.                                               *)
(***************************************************************************)
EXTENDS Integers, Sequences, FiniteSets, TLC

(***************************************************************************)
(* Bounds of the model.                                                    *)
(***************************************************************************)
MaxLen == 4        \* longest enumerated reference string
MaxFrames == 3     \* largest enumerated frame count
MaxPlayLen == 4    \* longest reference string replayed through the Animator

(***************************************************************************)
(* JavaScript values.  A Number that is an integer is the record           *)
(* [mant, exp] standing for mant * 10^exp.  exp = 0 for the integers whose *)
(* magnitude is below 10^21; the integers from 10^21 on, which             *)
(* Number::toString prints in exponential notation, are represented by     *)
(* those with a single significant digit, mant \in -9..9 \ {0}, exp >= 21. *)
(***************************************************************************)
null == [null |-> TRUE]

NaN == [nan |-> TRUE]

Num(n) == [mant |-> n, exp |-> 0]

Sci(d, e) == [mant |-> d, exp |-> e]

\* IEEE +Infinity, as the value of futureUses[p] (line 463): an integer above
\* every index of a reference string the model enumerates.
Infinity == 2147483647

Digits == <<"0", "1", "2", "3", "4", "5", "6", "7", "8", "9">>

DigitSet == {Digits[i] : i \in 1..10}

DigitValue(c) == (CHOOSE i \in 1..10 : Digits[i] = c) - 1

RECURSIVE NatToString(_)
NatToString(n) ==
    IF n < 10 THEN <<Digits[n + 1]>>
    ELSE NatToString(n \div 10) \o <<Digits[(n % 10) + 1]>>

\* Number::toString(x), radix 10, which makes the property key of futureUses[p]:
\* decimal digits below 10^21, exponential notation "de+N" from 10^21 on.
NumberToString(x) ==
    LET sign == IF x.mant < 0 THEN <<"-">> ELSE <<>>
        abs  == IF x.mant < 0 THEN 0 - x.mant ELSE x.mant
    IN  IF x.exp = 0 THEN sign \o NatToString(abs)
        ELSE sign \o NatToString(abs) \o <<"e", "+">> \o NatToString(x.exp)

RECURSIVE DigitPrefixLen(_)
DigitPrefixLen(s) ==
    IF s = <<>> \/ Head(s) \notin DigitSet THEN 0
    ELSE 1 + DigitPrefixLen(Tail(s))

RECURSIVE DigitsToNat(_, _)
DigitsToNat(s, acc) ==
    IF s = <<>> THEN acc
    ELSE DigitsToNat(Tail(s), 10 * acc + DigitValue(Head(s)))

\* parseInt(s, 10): an optional sign, then the longest prefix of decimal
\* digits; whatever follows the digits is ignored; NaN without a digit.
parseInt(s) ==
    LET neg  == s # <<>> /\ Head(s) = "-"
        body == IF s # <<>> /\ Head(s) \in {"-", "+"} THEN Tail(s) ELSE s
        n    == DigitPrefixLen(body)
        v    == DigitsToNat(SubSeq(body, 1, n), 0)
    IN  IF n = 0 THEN NaN
        ELSE Num(IF neg THEN 0 - v ELSE v)

(***************************************************************************)
(* Array primitives.                                                       *)
(***************************************************************************)
RECURSIVE IndexFrom(_, _, _)
IndexFrom(arr, v, i) ==
    IF i > Len(arr) THEN -1
    ELSE IF arr[i] = v THEN i - 1
    ELSE IndexFrom(arr, v, i + 1)

\* Array.prototype.indexOf: the first index holding v, or -1.
IndexOf(arr, v) == IndexFrom(arr, v, 1)

\* Array.prototype.includes.
Includes(arr, v) == \E i \in 1..Len(arr) : arr[i] = v

\* arr[idx] = v.  An index that indexOf returned is below the length; for
\* idx = -1 the assignment creates the property "-1", which is not an
\* element: the elements, and what [...arr] copies, stay as they were.
ArraySet(arr, idx, v) ==
    IF idx >= 0 /\ idx < Len(arr) THEN [arr EXCEPT ![idx + 1] = v]
    ELSE arr

\* pages.slice(from): the elements from the 0-based index `from` on.
Slice(arr, from) == SubSeq(arr, from + 1, Len(arr))

\* arr.splice(idx, 1): the array without the element at the 0-based idx; a
\* negative idx counts from the end, so splice(-1, 1) removes the last one.
Splice1(arr, idx) ==
    LET start == IF idx < 0 THEN (IF Len(arr) + idx < 0 THEN 0 ELSE Len(arr) + idx)
                 ELSE idx
    IN  IF start >= Len(arr) THEN arr
        ELSE [i \in 1..(Len(arr) - 1) |-> IF i <= start THEN arr[i] ELSE arr[i + 1]]

(***************************************************************************)
(* SimulationLogic.                                                        *)
(***************************************************************************)
\* The narration of a step, `Step ${step + 1} (Page ${page}): ...`, kept as
\* the values interpolated into its template: one shape per template.
HitMessage(step, page) ==
    [step |-> step + 1, page |-> page, outcome |-> "HIT"]

LoadMessage(step, page, emptyIndex) ==
    [step |-> step + 1, page |-> page, outcome |-> "FAULT", frame |-> emptyIndex]

EvictMessage(step, page, pageToEvict, policy, evictIndex) ==
    [step |-> step + 1, page |-> page, outcome |-> "FAULT", frame |-> evictIndex,
     evicted |-> pageToEvict, policy |-> policy]

createState(step, page, frames, isHit, pageToEvict, helperQueue, message, stats) ==
    [step |-> step, page |-> page, frames |-> frames, isHit |-> isHit,
     pageToEvict |-> pageToEvict, helperQueue |-> helperQueue,
     message |-> message, stats |-> stats]

\* NewRun with one slot too many: new Array(frameCount + 1).
NewRun_OffByOne(frameCount) ==
    [frames  |-> [i \in 1..(frameCount + 1) |-> null],
     helper  |-> <<>>,
     history |-> <<>>,
     stats   |-> [hits |-> 0, faults |-> 0, total |-> 0]]

\* The locals of a run before the first page: frames, the helper structure,
\* history, stats.
NewRun(frameCount) ==
    [frames  |-> [i \in 1..frameCount |-> null],
     helper  |-> <<>>,
     history |-> <<>>,
     stats   |-> [hits |-> 0, faults |-> 0, total |-> 0]]

\* CountHit without stats.total++.
CountHit_SkipsTotal(stats) ==
    [hits |-> stats.hits + 1, faults |-> stats.faults, total |-> stats.total]

\* stats.total++ with stats.hits++ (a hit) or stats.faults++ (a fault).
CountHit(stats) ==
    [hits |-> stats.hits + 1, faults |-> stats.faults, total |-> stats.total + 1]

CountFault(stats) ==
    [hits |-> stats.hits, faults |-> stats.faults + 1, total |-> stats.total + 1]

\* The locals after history.push(this.createState(...)), which ends the body
\* of each forEach.
Push(s, step, page, frames, isHit, pageToEvict, helperQueue, message, stats) ==
    [frames  |-> frames, helper |-> helperQueue, stats |-> stats,
     history |-> Append(s.history,
                        createState(step, page, frames, isHit, pageToEvict,
                                    helperQueue, message, stats))]

\* FIFOHit that moves the page hit to the back of the queue.
FIFOHit_Refreshes(s, page, step) ==
    Push(s, step, page, s.frames, TRUE, null,
         Append(Splice1(s.helper, IndexOf(s.helper, page)), page),
         HitMessage(step, page), CountHit(s.stats))

\* runFIFO, a hit: the queue is left alone.
FIFOHit(s, page, step) ==
    Push(s, step, page, s.frames, TRUE, null, s.helper,
         HitMessage(step, page), CountHit(s.stats))

\* FIFOLoad with frames.push(page) for frames[emptyIndex] = page.
FIFOLoad_Pushes(s, page, step) ==
    LET emptyIndex == IndexOf(s.frames, null)
        frames     == Append(s.frames, page)
        fifoQueue  == Append(s.helper, page)
    IN  Push(s, step, page, frames, FALSE, null, fifoQueue,
             LoadMessage(step, page, emptyIndex), CountFault(s.stats))

\* runFIFO, a fault with an empty frame.
FIFOLoad(s, page, step) ==
    LET emptyIndex == IndexOf(s.frames, null)
        frames     == ArraySet(s.frames, emptyIndex, page)
        fifoQueue  == Append(s.helper, page)
    IN  Push(s, step, page, frames, FALSE, null, fifoQueue,
             LoadMessage(step, page, emptyIndex), CountFault(s.stats))

\* FIFOReplace with fifoQueue.pop() for fifoQueue.shift().
FIFOReplace_EvictsNewest(s, page, step) ==
    LET pageToEvict == s.helper[Len(s.helper)]
        evictIndex  == IndexOf(s.frames, pageToEvict)
        frames      == ArraySet(s.frames, evictIndex, page)
        fifoQueue   == Append(SubSeq(s.helper, 1, Len(s.helper) - 1), page)
    IN  Push(s, step, page, frames, FALSE, pageToEvict, fifoQueue,
             EvictMessage(step, page, pageToEvict, "FIFO", evictIndex),
             CountFault(s.stats))

\* runFIFO, a replacement fault: fifoQueue.shift() is the victim.
FIFOReplace(s, page, step) ==
    LET pageToEvict == Head(s.helper)
        evictIndex  == IndexOf(s.frames, pageToEvict)
        frames      == ArraySet(s.frames, evictIndex, page)
        fifoQueue   == Append(Tail(s.helper), page)
    IN  Push(s, step, page, frames, FALSE, pageToEvict, fifoQueue,
             EvictMessage(step, page, pageToEvict, "FIFO", evictIndex),
             CountFault(s.stats))

\* The body of pages.forEach in runFIFO.
FIFOStep(s, page, step) ==
    IF Includes(s.frames, page) THEN FIFOHit(s, page, step)
    ELSE IF Includes(s.frames, null) THEN FIFOLoad(s, page, step)
    ELSE FIFOReplace(s, page, step)

RECURSIVE FIFOLoop(_, _, _)
FIFOLoop(pages, step, s) ==
    IF step >= Len(pages) THEN s
    ELSE FIFOLoop(pages, step + 1, FIFOStep(s, pages[step + 1], step))

runFIFO(pages, frameCount) == FIFOLoop(pages, 0, NewRun(frameCount)).history

\* LRUHit that leaves lruStack as it was.
LRUHit_KeepsOrder(s, page, step) ==
    Push(s, step, page, s.frames, TRUE, null, s.helper,
         HitMessage(step, page), CountHit(s.stats))

\* LRUHit without the splice: the page is unshifted a second time.
LRUHit_Unshifts(s, page, step) ==
    Push(s, step, page, s.frames, TRUE, null, <<page>> \o s.helper,
         HitMessage(step, page), CountHit(s.stats))

\* runLRU, a hit: the page moves to the front of lruStack (MRU at 0).
LRUHit(s, page, step) ==
    LET lruStack == <<page>> \o Splice1(s.helper, IndexOf(s.helper, page))
    IN  Push(s, step, page, s.frames, TRUE, null, lruStack,
             HitMessage(step, page), CountHit(s.stats))

\* runLRU, a fault with an empty frame.
LRULoad(s, page, step) ==
    LET emptyIndex == IndexOf(s.frames, null)
        frames     == ArraySet(s.frames, emptyIndex, page)
        lruStack   == <<page>> \o s.helper
    IN  Push(s, step, page, frames, FALSE, null, lruStack,
             LoadMessage(step, page, emptyIndex), CountFault(s.stats))

\* LRUReplace with lruStack.shift() for lruStack.pop().
LRUReplace_EvictsMRU(s, page, step) ==
    LET pageToEvict == Head(s.helper)
        evictIndex  == IndexOf(s.frames, pageToEvict)
        frames      == ArraySet(s.frames, evictIndex, page)
        lruStack    == <<page>> \o Tail(s.helper)
    IN  Push(s, step, page, frames, FALSE, pageToEvict, lruStack,
             EvictMessage(step, page, pageToEvict, "LRU", evictIndex),
             CountFault(s.stats))

\* runLRU, a replacement fault: lruStack.pop() is the victim.
LRUReplace(s, page, step) ==
    LET pageToEvict == s.helper[Len(s.helper)]
        evictIndex  == IndexOf(s.frames, pageToEvict)
        frames      == ArraySet(s.frames, evictIndex, page)
        lruStack    == <<page>> \o SubSeq(s.helper, 1, Len(s.helper) - 1)
    IN  Push(s, step, page, frames, FALSE, pageToEvict, lruStack,
             EvictMessage(step, page, pageToEvict, "LRU", evictIndex),
             CountFault(s.stats))

\* The body of pages.forEach in runLRU.
LRUStep(s, page, step) ==
    IF Includes(s.frames, page) THEN LRUHit(s, page, step)
    ELSE IF Includes(s.frames, null) THEN LRULoad(s, page, step)
    ELSE LRUReplace(s, page, step)

RECURSIVE LRULoop(_, _, _)
LRULoop(pages, step, s) ==
    IF step >= Len(pages) THEN s
    ELSE LRULoop(pages, step + 1, LRUStep(s, pages[step + 1], step))

runLRU(pages, frameCount) == LRULoop(pages, 0, NewRun(frameCount)).history

(***************************************************************************)
(* The object futureUses of runOptimal, as the sequence of its             *)
(* [key, value] properties in the order Object.keys lists them: the keys   *)
(* that are array indices (canonical decimal strings of non-negative       *)
(* integers) in ascending numeric order, then the other keys in the order  *)
(* they were created.                                                      *)
(***************************************************************************)
\* Every decimal string NumberToString makes of a non-negative integer below
\* 10^21 that the model holds is below 2^32 - 1, hence an array index.
IsArrayIndex(key) == \A i \in 1..Len(key) : key[i] \in DigitSet

HasKey(obj, key) == \E i \in 1..Len(obj) : obj[i].key = key

\* obj[key]
ObjGet(obj, key) == obj[CHOOSE i \in 1..Len(obj) : obj[i].key = key].value

\* The position a new key takes in the order of Object.keys.
InsertPos(obj, key) ==
    IF IsArrayIndex(key) THEN
        1 + Cardinality({i \in 1..Len(obj) :
                            /\ IsArrayIndex(obj[i].key)
                            /\ DigitsToNat(obj[i].key, 0) < DigitsToNat(key, 0)})
    ELSE Len(obj) + 1

\* obj[key] = value
ObjSet(obj, key, value) ==
    IF HasKey(obj, key) THEN
        [i \in 1..Len(obj) |-> IF obj[i].key = key
                               THEN [key |-> key, value |-> value] ELSE obj[i]]
    ELSE LET pos == InsertPos(obj, key)
         IN  SubSeq(obj, 1, pos - 1) \o <<[key |-> key, value |-> value]>>
                \o SubSeq(obj, pos, Len(obj))

ObjectKeys(obj) == [i \in 1..Len(obj) |-> obj[i].key]

\* pagesInFrames.forEach(p => futureUses[p] = ...), lines 461-464.
RECURSIVE FutureUses(_, _, _, _)
FutureUses(pagesInFrames, i, rest, obj) ==
    IF i > Len(pagesInFrames) THEN obj
    ELSE LET p       == pagesInFrames[i]
             nextUse == IndexOf(rest, p)
         IN  FutureUses(pagesInFrames, i + 1, rest,
                 ObjSet(obj, NumberToString(p),
                        IF nextUse = -1 THEN Infinity ELSE nextUse))

\* keys.reduce((a, b) => futureUses[a] > futureUses[b] ? a : b), line 466,
\* without an initial value: the accumulator starts as the first key.
RECURSIVE ReduceKeys(_, _, _, _)
ReduceKeys(keys, i, a, futureUses) ==
    IF i > Len(keys) THEN a
    ELSE LET b == keys[i]
         IN  ReduceKeys(keys, i + 1,
                 IF ObjGet(futureUses, a) > ObjGet(futureUses, b) THEN a ELSE b,
                 futureUses)

\* frames.filter(p => p !== null)
RECURSIVE NonNull(_)
NonNull(arr) ==
    IF arr = <<>> THEN <<>>
    ELSE IF Head(arr) = null THEN NonNull(Tail(arr))
    ELSE <<Head(arr)>> \o NonNull(Tail(arr))

\* The victim of a replacement fault of runOptimal, lines 458-467.
OptimalVictim(frames, pages, step) ==
    LET pagesInFrames == NonNull(frames)
        futureUses    == FutureUses(pagesInFrames, 1, Slice(pages, step + 1), <<>>)
        keys          == ObjectKeys(futureUses)
    IN  parseInt(ReduceKeys(keys, 2, keys[1], futureUses))

\* runOptimal, a hit.  The helper structure of a snapshot of runOptimal is
\* the future, pages.slice(step + 1).
OptimalHit(s, pages, page, step) ==
    Push(s, step, page, s.frames, TRUE, null, Slice(pages, step + 1),
         HitMessage(step, page), CountHit(s.stats))

\* runOptimal, a fault with an empty frame.
OptimalLoad(s, pages, page, step) ==
    LET emptyIndex == IndexOf(s.frames, null)
        frames     == ArraySet(s.frames, emptyIndex, page)
    IN  Push(s, step, page, frames, FALSE, null, Slice(pages, step + 1),
             LoadMessage(step, page, emptyIndex), CountFault(s.stats))

\* runOptimal, a replacement fault.
OptimalReplace(s, pages, page, step) ==
    LET pageToEvict == OptimalVictim(s.frames, pages, step)
        evictIndex  == IndexOf(s.frames, pageToEvict)
        frames      == ArraySet(s.frames, evictIndex, page)
    IN  Push(s, step, page, frames, FALSE, pageToEvict, Slice(pages, step + 1),
             EvictMessage(step, page, pageToEvict, "Optimal", evictIndex),
             CountFault(s.stats))

\* The body of pages.forEach in runOptimal.
OptimalStep(s, pages, page, step) ==
    IF Includes(s.frames, page) THEN OptimalHit(s, pages, page, step)
    ELSE IF Includes(s.frames, null) THEN OptimalLoad(s, pages, page, step)
    ELSE OptimalReplace(s, pages, page, step)

RECURSIVE OptimalLoop(_, _, _)
OptimalLoop(pages, step, s) ==
    IF step >= Len(pages) THEN s
    ELSE OptimalLoop(pages, step + 1, OptimalStep(s, pages, pages[step + 1], step))

runOptimal(pages, frameCount) == OptimalLoop(pages, 0, NewRun(frameCount)).history

\* The outcome of a call: the value it returns or the Error it throws.
Return(v) == [value |-> v]

Throw(message) == [error |-> message]

Threw(outcome) == "error" \in DOMAIN outcome

\* run with a default branch that falls back to FIFO instead of throwing.
run_DefaultsToFIFO(pages, frameCount, algorithm) ==
    CASE algorithm = "LRU"     -> Return(runLRU(pages, frameCount))
      [] algorithm = "OPTIMAL" -> Return(runOptimal(pages, frameCount))
      [] OTHER                 -> Return(runFIFO(pages, frameCount))

\* SimulationLogic.run
run(pages, frameCount, algorithm) ==
    CASE algorithm = "FIFO"    -> Return(runFIFO(pages, frameCount))
      [] algorithm = "LRU"     -> Return(runLRU(pages, frameCount))
      [] algorithm = "OPTIMAL" -> Return(runOptimal(pages, frameCount))
      [] OTHER                 -> Throw("Unknown algorithm selected.")

(***************************************************************************)
(* State of the application.                                               *)
(***************************************************************************)
VARIABLES
    algorithm,         \* uiManager.algorithmSelect.value
    speedSlider,       \* uiManager.speedSlider.value
    framesInput,       \* uiManager.framesInput.value, parsed: a Number or NaN
    pages,             \* PageReplacementSimulator.pages
    fullStateHistory,  \* PageReplacementSimulator.fullStateHistory
    animator,          \* PageReplacementSimulator.animator: null or an Animator
    orphans,           \* replaced Animators that still own a pending timeout
    executionLog,      \* uiManager.executionLog.textContent, one entry per line
    statusMessage,     \* uiManager.statusMessage: text and type
    statDisplay,       \* the statistics panel
    controls,          \* the disabled flags of the controls, the play label
    displayed,         \* what the canvas shows: the snapshot last drawn
    lastStateFrames,   \* the global lastStateFrames
    resizeHooked       \* whether renderer.onResize redraws the animator

vars == <<algorithm, speedSlider, framesInput, pages, fullStateHistory, animator, orphans,
          executionLog, statusMessage, statDisplay, controls, displayed,
          lastStateFrames, resizeHooked>>

(***************************************************************************)
(* The methods below run on a record w, "the world": the Animator they are *)
(* called on (w.a) and everything they reach through uiManager and         *)
(* renderer.  An action runs a handler on the world of the current state   *)
(* and stores the world it returns.                                        *)
(*                                                                         *)
(* Timeouts.  a.timer is "null", "live" (the handle of a pending timeout)  *)
(* or "dead" (the handle of a timeout that has fired).  a.lost counts the  *)
(* pending timeouts of this Animator whose handle it no longer holds, and   *)
(* a.timerDelay is the delay the pending timeout of the handle was set     *)
(* with (0 when the handle is not of a pending timeout).                   *)
(***************************************************************************)
World(a) ==
    [a |-> a, algorithm |-> algorithm, executionLog |-> executionLog,
     statusMessage |-> statusMessage, statDisplay |-> statDisplay,
     controls |-> controls, displayed |-> displayed,
     lastStateFrames |-> lastStateFrames, resizeHooked |-> resizeHooked]

\* UIManager.toggleControls
toggleControls(w, isSimulating) ==
    [w EXCEPT !.controls = [@ EXCEPT !.playPause    = ~isSimulating,
                                     !.stepBackward = ~isSimulating,
                                     !.stepForward  = ~isSimulating,
                                     !.exportLog    = ~isSimulating,
                                     !.exportPng    = ~isSimulating,
                                     !.start        = isSimulating,
                                     !.config       = isSimulating]]

\* UIManager.setPlayButtonState
setPlayButtonState(w, isPlaying) ==
    [w EXCEPT !.controls.playLabel = IF isPlaying THEN "Pause" ELSE "Play"]

\* UIManager.updateStepButtonStates
updateStepButtonStates(w, currentIndex, totalSteps) ==
    [w EXCEPT !.controls.stepBackward = (currentIndex <= 0),
              !.controls.stepForward  = (currentIndex >= totalSteps - 1)]

\* UIManager.updateStats; the hit rate shown is derived from hits and total.
updateStats(w, stats, currentStep, totalSteps) ==
    [w EXCEPT !.statDisplay = [hits |-> stats.hits, faults |-> stats.faults,
                               step |-> currentStep, of |-> totalSteps]]

\* A fixed text of the status bar, as opposed to the narration of a step.
Text(s) == [text |-> s]

\* UIManager.setStatusMessage
setStatusMessage(w, message, type) ==
    [w EXCEPT !.statusMessage = [text |-> message, type |-> type]]

\* UIManager.addLogMessage
addLogMessage(w, message) ==
    [w EXCEPT !.executionLog = Append(@, message)]

\* UIManager.resetUI
resetUI(w, totalSteps) ==
    setStatusMessage(
        [w EXCEPT !.statDisplay = [hits |-> 0, faults |-> 0, step |-> 0,
                                   of |-> totalSteps],
                  !.executionLog = <<>>],
        IF totalSteps > 0 THEN Text("Simulation started.")
        ELSE Text("Ready to start simulation."),
        "info")

\* renderer.animateStep as the constructor of PageReplacementSimulator
\* rebinds it (lines 40-53): sets lastStateFrames, draws the step with the
\* selected algorithm, installs the onResize redraw.
animateStep(w, lastState, state, allPages) ==
    [w EXCEPT !.lastStateFrames =
                  IF lastState # null THEN lastState.frames
                  ELSE [i \in 1..Len(state.frames) |-> null],
              !.displayed = [state |-> state, algorithm |-> w.algorithm],
              !.resizeHooked = TRUE]

\* new Animator(renderer, uiManager, stateHistory, pages)
NewAnimator(stateHistory, allPages) ==
    [stateHistory |-> stateHistory, pages |-> allPages, currentIndex |-> 0,
     isPlaying |-> FALSE, animationSpeed |-> 1000, timer |-> "null",
     lastLoggedIndex |-> -1, lost |-> 0, timerDelay |-> 0]

\* drawCurrentState without the watermark test: logs whenever it may log.
drawCurrentState_AlwaysLogs(w, suppressLog) ==
    IF w.a.currentIndex < 0 \/ w.a.currentIndex >= Len(w.a.stateHistory) THEN w
    ELSE
        LET currentIndex == w.a.currentIndex
            state     == w.a.stateHistory[currentIndex + 1]
            lastState == IF currentIndex > 0 THEN w.a.stateHistory[currentIndex]
                         ELSE null
            w1 == animateStep(w, lastState, state, w.a.pages)
            w2 == updateStats(w1, state.stats, currentIndex + 1, Len(w.a.pages))
            w3 == setStatusMessage(w2, state.message,
                                   IF state.isHit THEN "success" ELSE "error")
            w4 == IF ~suppressLog
                  THEN [addLogMessage(w3, state.message)
                            EXCEPT !.a.lastLoggedIndex = currentIndex]
                  ELSE w3
        IN  updateStepButtonStates(w4, currentIndex, Len(w.a.stateHistory))

\* Animator.drawCurrentState
drawCurrentState(w, suppressLog) ==
    IF w.a.currentIndex < 0 \/ w.a.currentIndex >= Len(w.a.stateHistory) THEN w
    ELSE
        LET currentIndex == w.a.currentIndex
            state     == w.a.stateHistory[currentIndex + 1]
            lastState == IF currentIndex > 0 THEN w.a.stateHistory[currentIndex]
                         ELSE null
            w1 == animateStep(w, lastState, state, w.a.pages)
            w2 == updateStats(w1, state.stats, currentIndex + 1, Len(w.a.pages))
            w3 == setStatusMessage(w2, state.message,
                                   IF state.isHit THEN "success" ELSE "error")
            w4 == IF ~suppressLog /\ currentIndex > w.a.lastLoggedIndex
                  THEN [addLogMessage(w3, state.message)
                            EXCEPT !.a.lastLoggedIndex = currentIndex]
                  ELSE w3
        IN  updateStepButtonStates(w4, currentIndex, Len(w.a.stateHistory))

\* pause without clearTimeout: the handle is kept and the timeout stays set.
pause_LeavesTimer(w) ==
    IF ~w.a.isPlaying THEN w
    ELSE setPlayButtonState([w EXCEPT !.a.isPlaying = FALSE], FALSE)

\* Animator.pause
pause(w) ==
    IF ~w.a.isPlaying THEN w
    ELSE [setPlayButtonState([w EXCEPT !.a.isPlaying = FALSE], FALSE)
              EXCEPT !.a.timer = "null", !.a.timerDelay = 0]

\* this.timer = setTimeout(() => this.nextStep(), this.animationSpeed)
SetTimer(w) ==
    [w EXCEPT !.a.lost  = IF w.a.timer = "live" THEN @ + 1 ELSE @,
              !.a.timer = "live",
              !.a.timerDelay = w.a.animationSpeed]

\* nextStep that draws the last snapshot without calling pause().
nextStep_StaysPlaying(w) ==
    LET w1 == drawCurrentState(w, FALSE)
    IN  IF w1.a.currentIndex >= Len(w1.a.stateHistory) - 1 THEN
            LET w3 == setStatusMessage(w1, Text("Simulation finished."), "success")
                w4 == toggleControls(w3, FALSE)
            IN  [w4 EXCEPT !.controls.start = FALSE,
                           !.controls.playPause = FALSE]
        ELSE IF w1.a.isPlaying THEN
            SetTimer([w1 EXCEPT !.a.currentIndex = @ + 1])
        ELSE w1

\* nextStep that advances the cursor without setting the next timeout.
nextStep_NoTimeout(w) ==
    LET w1 == drawCurrentState(w, FALSE)
    IN  IF w1.a.currentIndex >= Len(w1.a.stateHistory) - 1 THEN
            LET w2 == pause(w1)
                w3 == setStatusMessage(w2, Text("Simulation finished."), "success")
                w4 == toggleControls(w3, FALSE)
            IN  [w4 EXCEPT !.controls.start = FALSE,
                           !.controls.playPause = FALSE]
        ELSE IF w1.a.isPlaying THEN
            [w1 EXCEPT !.a.currentIndex = @ + 1]
        ELSE w1

\* Animator.nextStep
nextStep(w) ==
    LET w1 == drawCurrentState(w, FALSE)
    IN  IF w1.a.currentIndex >= Len(w1.a.stateHistory) - 1 THEN
            LET w2 == pause(w1)
                w3 == setStatusMessage(w2, Text("Simulation finished."), "success")
                w4 == toggleControls(w3, FALSE)
            IN  [w4 EXCEPT !.controls.start = FALSE,
                           !.controls.playPause = FALSE]
        ELSE IF w1.a.isPlaying THEN
            SetTimer([w1 EXCEPT !.a.currentIndex = @ + 1])
        ELSE w1

\* play that rewinds at the end without emptying the log.
play_KeepsLog(w) ==
    IF w.a.isPlaying THEN w
    ELSE
        LET w1 == IF w.a.currentIndex >= Len(w.a.stateHistory) - 1
                  THEN [w EXCEPT !.a.currentIndex = 0,
                                 !.a.lastLoggedIndex = -1]
                  ELSE w
            w2 == setPlayButtonState([w1 EXCEPT !.a.isPlaying = TRUE], TRUE)
        IN  nextStep(toggleControls(w2, TRUE))

\* Animator.play
play(w) ==
    IF w.a.isPlaying THEN w
    ELSE
        LET w1 == IF w.a.currentIndex >= Len(w.a.stateHistory) - 1
                  THEN [w EXCEPT !.a.currentIndex = 0,
                                 !.a.lastLoggedIndex = -1,
                                 !.executionLog = <<>>]
                  ELSE w
            w2 == setPlayButtonState([w1 EXCEPT !.a.isPlaying = TRUE], TRUE)
        IN  nextStep(toggleControls(w2, TRUE))

\* stepForward drawing with suppressLog = true, as stepBackward does.
stepForward_SuppressesLog(w) ==
    IF w.a.currentIndex >= Len(w.a.stateHistory) - 1 THEN w
    ELSE drawCurrentState([w EXCEPT !.a.currentIndex = @ + 1], TRUE)

\* stepForward without the test for the last index.
stepForward_NoGuard(w) ==
    drawCurrentState([w EXCEPT !.a.currentIndex = @ + 1], FALSE)

\* Animator.stepForward
stepForward(w) ==
    IF w.a.currentIndex >= Len(w.a.stateHistory) - 1 THEN w
    ELSE drawCurrentState([w EXCEPT !.a.currentIndex = @ + 1], FALSE)

\* stepBackward without the test for index 0.
stepBackward_NoGuard(w) ==
    drawCurrentState([w EXCEPT !.a.currentIndex = @ - 1], TRUE)

\* stepBackward without the redraw.
stepBackward_NoRedraw(w) ==
    IF w.a.currentIndex <= 0 THEN w
    ELSE [w EXCEPT !.a.currentIndex = @ - 1]

\* Animator.stepBackward
stepBackward(w) ==
    IF w.a.currentIndex <= 0 THEN w
    ELSE drawCurrentState([w EXCEPT !.a.currentIndex = @ - 1], TRUE)

\* setSpeed that also moves the pending timeout to the new delay.
setSpeed_Reschedules(w, value) ==
    [w EXCEPT !.a.animationSpeed = 2100 - value,
              !.a.timerDelay = IF w.a.timer = "live" THEN 2100 - value ELSE @]

\* Animator.setSpeed
setSpeed(w, value) ==
    [w EXCEPT !.a.animationSpeed = 2100 - value]

(***************************************************************************)
(* Inputs.                                                                 *)
(***************************************************************************)
\* The values of the algorithm select; "NONE" stands for any value that is
\* none of the three run() knows.
AlgorithmValues == {"FIFO", "LRU", "OPTIMAL", "NONE"}

\* Positions of the speed slider (100..2000, line 589): both ends, and the
\* one that gives the delay a new Animator starts with.
SliderValues == {100, 1100, 2000}

\* Page identifiers of the enumerated reference strings: three small ones
\* and 10^21, the smallest integer printed in exponential notation.
PageIds == {Num(1), Num(2), Num(3), Sci(1, 21)}

RefStrings(n) == UNION {[1..k -> PageIds] : k \in 1..n}

NumSeq(xs) == [i \in 1..Len(xs) |-> Num(xs[i])]

Scenario13 == NumSeq(<<7, 0, 1, 2, 0, 3, 0, 4, 2, 3, 0, 3, 2>>)

Scenario7 == NumSeq(<<1, 2, 3, 4, 1, 2, 5>>)

\* What startSimulation reads from framesInput and refStringInput: the
\* parsed frame count (a Number or NaN) and the parsed, filtered pages.
StartInput(frameCount, refString) ==
    [frameCount |-> frameCount, pages |-> refString]

RejectedInputs ==
    {StartInput(Num(2), <<>>), StartInput(Num(0), <<Num(1)>>),
     StartInput(Num(11), <<Num(1)>>), StartInput(NaN, <<Num(1)>>)}

EngineInputs ==
    {StartInput(Num(n), ps) : n \in 1..MaxFrames, ps \in RefStrings(MaxLen)}
        \cup {StartInput(Num(3), Scenario13), StartInput(Num(4), Scenario7)}
        \cup RejectedInputs

(***************************************************************************)
(* Actions: one per event handler.                                         *)
(***************************************************************************)
HasPendingTimer(a) == a.timer = "live" \/ a.lost > 0

\* Stores the world a handler of the current animator returns.
Store(w) ==
    /\ animator' = w.a
    /\ executionLog' = w.executionLog
    /\ statusMessage' = w.statusMessage
    /\ statDisplay' = w.statDisplay
    /\ controls' = w.controls
    /\ displayed' = w.displayed
    /\ lastStateFrames' = w.lastStateFrames
    /\ resizeHooked' = w.resizeHooked

\* PageReplacementSimulator.startSimulation, the click handler of the start
\* button.
StartSimulation(in) ==
    /\ ~controls.start
    /\ framesInput' = in.frameCount
    /\ pages' = in.pages
    /\ UNCHANGED <<algorithm, speedSlider>>
    /\ IF \/ Len(in.pages) = 0
          \/ in.frameCount = NaN
          \/ in.frameCount.mant <= 0
          \/ in.frameCount.mant > 10
       THEN /\ statusMessage' =
                  [text |-> Text("Invalid input. Frames must be 1-10 and string non-empty."),
                   type |-> "error"]
            /\ UNCHANGED <<fullStateHistory, animator, orphans, executionLog,
                           statDisplay, controls, displayed, lastStateFrames,
                           resizeHooked>>
       ELSE LET result == run(in.pages, in.frameCount.mant, algorithm)
            IN  IF Threw(result)
                THEN /\ statusMessage' =
                           [text |-> [text |-> "Error: ", message |-> result.error],
                            type |-> "error"]
                     /\ UNCHANGED <<fullStateHistory, animator, orphans,
                                    executionLog, statDisplay, controls,
                                    displayed, lastStateFrames, resizeHooked>>
                ELSE LET old == IF animator = null THEN null
                                ELSE pause(World(animator))
                         w0  == IF animator = null THEN World(null) ELSE old
                         w1  == [w0 EXCEPT !.a = NewAnimator(result.value, in.pages)]
                         w2  == setSpeed(w1, speedSlider)
                         w3  == resetUI(w2, Len(in.pages))
                         w4  == toggleControls(w3, TRUE)
                         w5  == setPlayButtonState(w4, TRUE)
                         w6  == drawCurrentState(w5, FALSE)
                     IN  /\ fullStateHistory' = result.value
                         /\ orphans' = IF old # null /\ HasPendingTimer(old.a)
                                       THEN orphans \cup {old.a}
                                       ELSE orphans
                         /\ Store(play(w6))

\* The user picks an algorithm in the select while it is enabled.
SelectAlgorithm(value) ==
    /\ ~controls.config
    /\ algorithm' = value
    /\ UNCHANGED <<speedSlider, framesInput, pages, fullStateHistory, animator, orphans,
                   executionLog, statusMessage, statDisplay, controls,
                   displayed, lastStateFrames, resizeHooked>>

\* PageReplacementSimulator.togglePlayPause
TogglePlayPause ==
    /\ ~controls.playPause
    /\ UNCHANGED <<algorithm, speedSlider, framesInput, pages, fullStateHistory, orphans>>
    /\ IF animator = null
       THEN UNCHANGED <<animator, executionLog, statusMessage, statDisplay,
                        controls, displayed, lastStateFrames, resizeHooked>>
       ELSE IF animator.isPlaying
            THEN Store(pause(World(animator)))
            ELSE Store(play(World(animator)))

\* PageReplacementSimulator.stepForward
StepForward ==
    /\ ~controls.stepForward
    /\ UNCHANGED <<algorithm, speedSlider, framesInput, pages, fullStateHistory, orphans>>
    /\ IF animator = null
       THEN UNCHANGED <<animator, executionLog, statusMessage, statDisplay,
                        controls, displayed, lastStateFrames, resizeHooked>>
       ELSE Store(stepForward(pause(World(animator))))

\* PageReplacementSimulator.stepBackward
StepBackward ==
    /\ ~controls.stepBackward
    /\ UNCHANGED <<algorithm, speedSlider, framesInput, pages, fullStateHistory, orphans>>
    /\ IF animator = null
       THEN UNCHANGED <<animator, executionLog, statusMessage, statDisplay,
                        controls, displayed, lastStateFrames, resizeHooked>>
       ELSE Store(stepBackward(pause(World(animator))))

\* PageReplacementSimulator.updateSpeed, the input handler of the slider.
UpdateSpeed(value) ==
    /\ speedSlider' = value
    /\ UNCHANGED <<algorithm, framesInput, pages, fullStateHistory, orphans>>
    /\ IF animator = null
       THEN UNCHANGED <<animator, executionLog, statusMessage, statDisplay,
                        controls, displayed, lastStateFrames, resizeHooked>>
       ELSE Store(setSpeed(World(animator), value))

\* PageReplacementSimulator.exportScreenshot, as far as it changes state:
\* it draws the current state, with logging, before it reads the canvas.
ExportScreenshot ==
    /\ ~controls.exportPng
    /\ UNCHANGED <<algorithm, speedSlider, framesInput, pages, fullStateHistory, orphans>>
    /\ IF animator = null
       THEN /\ displayed' = Text("No simulation running.")
            /\ UNCHANGED <<animator, executionLog, statusMessage, statDisplay,
                           controls, lastStateFrames, resizeHooked>>
       ELSE Store(drawCurrentState(World(animator), FALSE))

\* The canvas is resized: Renderer.resizeCanvas calls onResize, which, once
\* animateStep has installed it, redraws the current state without logging.
Resize ==
    /\ resizeHooked
    /\ UNCHANGED <<algorithm, speedSlider, framesInput, pages, fullStateHistory, orphans>>
    /\ IF animator = null
       THEN UNCHANGED <<animator, executionLog, statusMessage, statDisplay,
                        controls, displayed, lastStateFrames, resizeHooked>>
       ELSE Store(drawCurrentState(World(animator), TRUE))

\* A pending timeout fires and calls nextStep on the Animator that set it.
TimerFires ==
    \E o \in (IF animator = null THEN {} ELSE {animator}) \cup orphans :
    \E held \in BOOLEAN :
        /\ IF held THEN o.timer = "live" ELSE o.lost > 0
        /\ LET fired == IF held
                        THEN [o EXCEPT !.timer = "dead", !.timerDelay = 0]
                        ELSE [o EXCEPT !.lost = @ - 1]
               w     == nextStep(World(fired))
           IN  IF o = animator
               THEN Store(w) /\ UNCHANGED orphans
               ELSE /\ Store([w EXCEPT !.a = animator])
                    /\ orphans' = (orphans \ {o}) \cup
                                  (IF HasPendingTimer(w.a) THEN {w.a} ELSE {})
        /\ UNCHANGED <<algorithm, speedSlider, framesInput, pages, fullStateHistory>>

(***************************************************************************)
(* Specifications.                                                         *)
(***************************************************************************)
\* The state after new PageReplacementSimulator().  The page that hosts the
\* script presets the select, the slider and the frames field.
Init ==
    /\ algorithm \in AlgorithmValues
    /\ speedSlider = 1100
    /\ framesInput = Num(3)
    /\ pages = <<>>
    /\ fullStateHistory = <<>>
    /\ animator = null
    /\ orphans = {}
    /\ executionLog = <<>>
    /\ statusMessage = [text |-> Text(""), type |-> "info"]
    /\ statDisplay = [hits |-> 0, faults |-> 0, step |-> 0, of |-> 0]
    /\ controls = [start |-> FALSE, config |-> FALSE, playPause |-> FALSE,
                   stepBackward |-> FALSE, stepForward |-> FALSE,
                   exportLog |-> FALSE, exportPng |-> FALSE,
                   playLabel |-> "Play"]
    /\ displayed = null
    /\ lastStateFrames = <<>>
    /\ resizeHooked = FALSE

\* The application: every handler, over the prefixes of one reference
\* string, run with two frames, and one input that is rejected.
PlaybackPages == NumSeq(<<1, 2, 1, 3, 2, 1>>)

PlaybackInputs ==
    {StartInput(Num(2), SubSeq(PlaybackPages, 1, k)) : k \in 1..MaxPlayLen}
        \cup {StartInput(Num(0), NumSeq(<<1>>))}

Start == \E in \in PlaybackInputs : StartSimulation(in)

Select == \E value \in AlgorithmValues : SelectAlgorithm(value)

Speed == \E value \in SliderValues : UpdateSpeed(value)

Next ==
    \/ Start
    \/ Select
    \/ TogglePlayPause
    \/ StepForward
    \/ StepBackward
    \/ Speed
    \/ ExportScreenshot
    \/ Resize
    \/ TimerFires

Spec == Init /\ [][Next]_vars

\* Playback of FIFO runs at one speed, with the browser's guarantee that a
\* timeout that stays set is eventually run by the event loop.
InitPlayback == Init /\ algorithm = "FIFO"

NextPlayback ==
    \/ Start
    \/ TogglePlayPause
    \/ StepForward
    \/ StepBackward
    \/ ExportScreenshot
    \/ Resize
    \/ TimerFires

SpecPlayback == InitPlayback /\ [][NextPlayback]_vars /\ WF_vars(TimerFires)

\* Starting again: the start button pressed with accepted and rejected
\* inputs and with every value of the select, before the first run and
\* after a run has played to its end.
RestartInputs ==
    PlaybackInputs \cup RejectedInputs
        \cup {StartInput(Num(1), <<Sci(1, 21), Num(1)>>)}

StartAgain == \E in \in RestartInputs : StartSimulation(in)

NextRestart ==
    \/ StartAgain
    \/ Select
    \/ TimerFires

SpecRestart == Init /\ [][NextRestart]_vars

\* The engine: the first simulation of a session, startSimulation over the
\* enumerated inputs with one of the three policies selected.
InitEngine == Init /\ algorithm # "NONE"

StartEngine == animator = null /\ \E in \in EngineInputs : StartSimulation(in)

NextEngine == StartEngine

SpecEngine == InitEngine /\ [][NextEngine]_vars

(***************************************************************************)
(* Properties of the history run() returns.  They are stated on the state  *)
(* startSimulation leaves: fullStateHistory, the pages it was computed     *)
(* from, the frame count and the algorithm selected.                       *)
(***************************************************************************)
Ran == animator # null

FrameCount == framesInput.mant

\* The FrameSet before step i (1-based position in the history).
FramesBefore(i) ==
    IF i = 1 THEN [k \in 1..FrameCount |-> null]
    ELSE fullStateHistory[i - 1].frames

\* The HelperStructure before step i.
HelperBefore(i) ==
    IF i = 1 THEN <<>> ELSE fullStateHistory[i - 1].helperQueue

Resident(frames) == {frames[k] : k \in 1..Len(frames)} \ {null}

IsFull(frames) == \A k \in 1..Len(frames) : frames[k] # null

\* Step i found no empty slot and did not hit: a replacement fault.
IsReplacement(i) ==
    /\ ~fullStateHistory[i].isHit
    /\ IsFull(FramesBefore(i))

FinalFaults(history) == history[Len(history)].stats.faults

\* C1: under every policy, the snapshot of step i is a hit iff pages[i] is in
\* the FrameSet of the snapshot before it (the empty FrameSet for the first
\* step), and in every snapshot pages[i] is in the snapshot's own FrameSet.
HitIffResidentBefore ==
    Ran => \A i \in 1..Len(fullStateHistory) :
               /\ fullStateHistory[i].isHit <=> Includes(FramesBefore(i), pages[i])
               /\ Includes(fullStateHistory[i].frames, pages[i])

\* C2: in every snapshot the FrameSet has exactly frameCount slots and no two
\* slots hold the same non-empty page.
FramesDistinct ==
    Ran => \A i \in 1..Len(fullStateHistory) :
               LET frames == fullStateHistory[i].frames
               IN  /\ Len(frames) = FrameCount
                   /\ \A j, k \in 1..Len(frames) :
                          (j # k /\ frames[j] # null) => frames[j] # frames[k]

\* A run that reached a replacement fault with every slot in use.
FramesDistinctWitness ==
    /\ Ran
    /\ FrameCount >= 2
    /\ \E i \in 1..Len(fullStateHistory) :
           /\ fullStateHistory[i].pageToEvict # null
           /\ IsFull(fullStateHistory[i].frames)

\* C3: the snapshot at position i has hits + faults = total = i + 1, hits is
\* the number of snapshots up to it that are hits, and the history has one
\* snapshot per page.
StatsCumulative ==
    Ran => /\ Len(fullStateHistory) = Len(pages)
           /\ \A i \in 1..Len(fullStateHistory) :
                  LET stats == fullStateHistory[i].stats
                  IN  /\ stats.hits + stats.faults = stats.total
                      /\ stats.total = i
                      /\ fullStateHistory[i].step = i - 1
                      /\ stats.hits =
                             Cardinality({j \in 1..i : fullStateHistory[j].isHit})

\* A run of at least three steps with both a hit and a fault before the end.
StatsCumulativeWitness ==
    /\ Ran
    /\ Len(fullStateHistory) >= 3
    /\ \E i, j \in 1..(Len(fullStateHistory) - 1) :
           fullStateHistory[i].isHit /\ ~fullStateHistory[j].isHit

\* C4: the final fault count of OPTIMAL is at most that of FIFO and at most
\* that of LRU on the same pages and frame count.
OptimalFaultsLeast ==
    (Ran /\ algorithm = "OPTIMAL") =>
        /\ FinalFaults(fullStateHistory) <= FinalFaults(runFIFO(pages, FrameCount))
        /\ FinalFaults(fullStateHistory) <= FinalFaults(runLRU(pages, FrameCount))

\* The step before i at which the page p, resident before i, was loaded.
LoadedAt(p, i) ==
    CHOOSE j \in 1..(i - 1) :
        /\ pages[j] = p /\ ~fullStateHistory[j].isHit
        /\ \A k \in (j + 1)..(i - 1) :
               ~(pages[k] = p /\ ~fullStateHistory[k].isHit)

\* The pages loaded, and the pages evicted, in the order of the steps.
RECURSIVE LoadOrder(_)
LoadOrder(history) ==
    IF history = <<>> THEN <<>>
    ELSE LET last == history[Len(history)]
         IN  LoadOrder(SubSeq(history, 1, Len(history) - 1))
                 \o (IF last.isHit THEN <<>> ELSE <<last.page>>)

RECURSIVE EvictOrder(_)
EvictOrder(history) ==
    IF history = <<>> THEN <<>>
    ELSE LET last == history[Len(history)]
         IN  EvictOrder(SubSeq(history, 1, Len(history) - 1))
                 \o (IF last.pageToEvict = null THEN <<>> ELSE <<last.pageToEvict>>)

\* C5: under FIFO the victim of a replacement fault is the resident page
\* loaded earliest, pages are evicted in the order they were loaded, and a
\* hit leaves the order queue as it was.
FIFOEvictsInLoadOrder ==
    (Ran /\ algorithm = "FIFO") =>
        /\ \A i \in 1..Len(fullStateHistory) :
               /\ fullStateHistory[i].isHit =>
                      fullStateHistory[i].helperQueue = HelperBefore(i)
               /\ IsReplacement(i) =>
                      LET victim == fullStateHistory[i].pageToEvict
                      IN  /\ victim \in Resident(FramesBefore(i))
                          /\ victim = Head(HelperBefore(i))
                          /\ \A q \in Resident(FramesBefore(i)) :
                                 LoadedAt(victim, i) <= LoadedAt(q, i)
        /\ LET evicted == EvictOrder(fullStateHistory)
           IN  evicted = SubSeq(LoadOrder(fullStateHistory), 1, Len(evicted))

\* A FIFO run in which a page was hit and was nevertheless the next victim.
FIFOEvictsInLoadOrderWitness ==
    /\ Ran
    /\ algorithm = "FIFO"
    /\ \E i, j \in 1..Len(fullStateHistory) :
           /\ i < j
           /\ fullStateHistory[i].isHit
           /\ fullStateHistory[j].pageToEvict = pages[i]
           /\ \A k \in (i + 1)..(j - 1) : fullStateHistory[k].pageToEvict = null

\* The sequence without the entry v, the order of the others kept.
RECURSIVE Without(_, _)
Without(seq, v) ==
    IF seq = <<>> THEN <<>>
    ELSE IF Head(seq) = v THEN Without(Tail(seq), v)
    ELSE <<Head(seq)>> \o Without(Tail(seq), v)

\* The last step before i that referenced the page p.
LastReferenced(p, i) ==
    CHOOSE j \in 1..(i - 1) :
        pages[j] = p /\ \A k \in (j + 1)..(i - 1) : pages[k] # p

\* C6: under LRU, after every step the referenced page is at index 0 of the
\* HelperStructure and the other entries keep their relative order, and the
\* victim of a replacement fault is the resident page referenced longest
\* ago, the last entry of the HelperStructure before the step.
LRUOrder ==
    (Ran /\ algorithm = "LRU") =>
        \A i \in 1..Len(fullStateHistory) :
            LET stack  == fullStateHistory[i].helperQueue
                before == HelperBefore(i)
                victim == fullStateHistory[i].pageToEvict
            IN  /\ stack # <<>> /\ stack[1] = pages[i]
                /\ Tail(stack) =
                       IF fullStateHistory[i].isHit THEN Without(before, pages[i])
                       ELSE IF IsReplacement(i) THEN Without(before, victim)
                       ELSE before
                /\ IsReplacement(i) =>
                       /\ victim = before[Len(before)]
                       /\ victim \in Resident(FramesBefore(i))
                       /\ \A q \in Resident(FramesBefore(i)) :
                              LastReferenced(victim, i) <= LastReferenced(q, i)

\* An LRU run in which a hit moved a page up the stack and a later
\* replacement fault evicted a page that was loaded after it.
LRUOrderWitness ==
    /\ Ran
    /\ algorithm = "LRU"
    /\ \E i, j \in 1..Len(fullStateHistory) :
           /\ i < j
           /\ fullStateHistory[i].isHit
           /\ IndexOf(HelperBefore(i), pages[i]) > 0
           /\ IsReplacement(j)
           /\ LoadedAt(fullStateHistory[j].pageToEvict, j) > LoadedAt(pages[i], j)

\* The distance from step i to the next reference of p in the pages that
\* follow step i; beyond every index when there is none.
NextUse(p, i) ==
    IF \E k \in (i + 1)..Len(pages) : pages[k] = p
    THEN CHOOSE k \in (i + 1)..Len(pages) :
             pages[k] = p /\ \A j \in (i + 1)..(k - 1) : pages[j] # p
    ELSE Len(pages) + 1

\* C7: under OPTIMAL the victim of a replacement fault is a resident page,
\* and no other resident page is next referenced strictly later; a resident
\* page that is never referenced again counts as infinitely far.
OptimalEvictsFarthest ==
    (Ran /\ algorithm = "OPTIMAL") =>
        \A i \in 1..Len(fullStateHistory) :
            IsReplacement(i) =>
                LET victim == fullStateHistory[i].pageToEvict
                IN  /\ victim \in Resident(FramesBefore(i))
                    /\ \A q \in Resident(FramesBefore(i)) :
                           NextUse(q, i) <= NextUse(victim, i)

RanScenario13(policy) ==
    Ran /\ algorithm = policy /\ pages = Scenario13 /\ FrameCount = 3

\* C8: run([7,0,1,2,0,3,0,4,2,3,0,3,2], 3, FIFO) ends with faults = 9.
Scenario13FIFONineFaults ==
    RanScenario13("FIFO") => FinalFaults(fullStateHistory) = 9

\* C8, as amended: run([7,0,1,2,0,3,0,4,2,3,0,3,2], 3, FIFO) ends with
\* faults = 10 (and hits = 3).
Scenario13FIFOTenFaults ==
    RanScenario13("FIFO") =>
        /\ FinalFaults(fullStateHistory) = 10
        /\ fullStateHistory[Len(fullStateHistory)].stats.hits = 3

Scenario13FIFOWitness == RanScenario13("FIFO") /\ Len(fullStateHistory) = 13

\* C9: run([7,0,1,2,0,3,0,4,2,3,0,3,2], 3, LRU) ends with faults = 10.
Scenario13LRUTenFaults ==
    RanScenario13("LRU") => FinalFaults(fullStateHistory) = 10

\* C9, as amended: run([7,0,1,2,0,3,0,4,2,3,0,3,2], 3, LRU) ends with
\* faults = 9 (and hits = 4).
Scenario13LRUNineFaults ==
    RanScenario13("LRU") =>
        /\ FinalFaults(fullStateHistory) = 9
        /\ fullStateHistory[Len(fullStateHistory)].stats.hits = 4

Scenario13LRUWitness == RanScenario13("LRU") /\ Len(fullStateHistory) = 13

RanScenario7 == Ran /\ pages = Scenario7 /\ FrameCount = 4

\* C10: for each policy, run([1,2,3,4,1,2,5], 4, policy) has steps 0..3
\* faults that evict nothing and leave all four frames filled, steps 4 and 5
\* hits, and step 6 a fault.
Scenario7Classified ==
    RanScenario7 =>
        /\ Len(fullStateHistory) = 7
        /\ \A i \in 1..4 : /\ ~fullStateHistory[i].isHit
                           /\ fullStateHistory[i].pageToEvict = null
        /\ Len(fullStateHistory[4].frames) = 4
        /\ IsFull(fullStateHistory[4].frames)
        /\ fullStateHistory[5].isHit
        /\ fullStateHistory[6].isHit
        /\ ~fullStateHistory[7].isHit

\* The scenario was run under the policy that computes its victim afresh.
Scenario7Witness ==
    /\ RanScenario7
    /\ algorithm = "OPTIMAL"
    /\ fullStateHistory[7].pageToEvict # null

\* The pages a HelperStructure holds.
HelperPages(helperQueue) == {helperQueue[k] : k \in 1..Len(helperQueue)}

\* C11: under FIFO and LRU, in every snapshot the pages of the HelperStructure
\* are exactly the non-empty entries of the FrameSet, and the HelperStructure
\* holds no page twice.
HelperMatchesFrames ==
    (Ran /\ algorithm \in {"FIFO", "LRU"}) =>
        \A i \in 1..Len(fullStateHistory) :
            LET helperQueue == fullStateHistory[i].helperQueue
            IN  /\ HelperPages(helperQueue) = Resident(fullStateHistory[i].frames)
                /\ \A j, k \in 1..Len(helperQueue) :
                       j # k => helperQueue[j] # helperQueue[k]

\* An LRU run with a hit that reorders the stack and a later replacement.
HelperMatchesFramesWitness ==
    /\ Ran
    /\ algorithm = "LRU"
    /\ FrameCount >= 2
    /\ \E i, j \in 1..Len(fullStateHistory) :
           /\ i < j
           /\ fullStateHistory[i].isHit
           /\ HelperBefore(i) # fullStateHistory[i].helperQueue
           /\ fullStateHistory[j].pageToEvict # null

(***************************************************************************)
(* Claims about the Animator.  The cursor is animator.currentIndex, the    *)
(* watermark animator.lastLoggedIndex, the log uiManager.executionLog, the *)
(* snapshot on the canvas displayed.state.                                 *)
(***************************************************************************)
LastIndex == Len(animator.stateHistory) - 1

\* The step indices of the entries of a log (a narration names step + 1).
LogSteps(log) == [k \in 1..Len(log) |-> log[k].step - 1]

IsPrefix(s, t) == Len(s) <= Len(t) /\ SubSeq(t, 1, Len(s)) = s

StrictlyIncreasing(ns) == \A j, k \in 1..Len(ns) : j < k => ns[j] < ns[k]

\* The play button is pressed on a paused Animator whose cursor is at the end.
RestartsFromEnd ==
    /\ animator # null
    /\ ~animator.isPlaying
    /\ animator.currentIndex >= LastIndex
    /\ TogglePlayPause

\* C12: within one run and without a restart from the end, every step of
\* play, pause, stepForward, stepBackward and the timer only appends to the
\* log, and the step indices of the log's entries are strictly increasing,
\* so no step is narrated twice.
LogAppendOnly ==
    [][/\ StrictlyIncreasing(LogSteps(executionLog'))
       /\ \/ IsPrefix(executionLog, executionLog')
          \/ Start
          \/ RestartsFromEnd]_vars

\* Playback resumed behind the watermark after stepping back over three
\* logged steps.
LogAppendOnlyWitness ==
    /\ animator # null
    /\ animator.isPlaying
    /\ Len(executionLog) >= 3
    /\ animator.currentIndex < animator.lastLoggedIndex

RECURSIVE BackSteps(_, _)
\* k calls of Animator.stepBackward.
BackSteps(w, k) == IF k = 0 THEN w ELSE BackSteps(stepBackward(w), k - 1)

RECURSIVE ForwardSteps(_, _)
\* k calls of Animator.stepForward.
ForwardSteps(w, k) == IF k = 0 THEN w ELSE ForwardSteps(stepForward(w), k - 1)

\* C13: from every reachable paused state with cursor c, k calls of
\* stepBackward (k <= c) followed by k calls of stepForward bring the cursor
\* back to c and leave the log and the watermark as they were.
BackAndForthRestores ==
    (animator # null /\ ~animator.isPlaying) =>
        \A k \in 0..animator.currentIndex :
            LET w == ForwardSteps(BackSteps(World(animator), k), k)
            IN  /\ w.a.currentIndex = animator.currentIndex
                /\ w.executionLog = executionLog
                /\ w.a.lastLoggedIndex = animator.lastLoggedIndex

\* C14: in every reachable state of a run the log holds the narration of
\* every step index from 0 up to the watermark.
LogComplete ==
    animator # null =>
        \A s \in 0..animator.lastLoggedIndex :
            \E k \in 1..Len(executionLog) :
                executionLog[k] = animator.stateHistory[s + 1].message

\* The snapshot at the cursor of Animator a.
AtCursor(a) == a.stateHistory[a.currentIndex + 1]

\* The stepForward handler runs with the cursor below the last index.
ForwardStep ==
    /\ animator # null
    /\ animator.currentIndex < LastIndex
    /\ StepForward

\* C15: every stepForward invoked with the cursor below the last index leaves
\* the controller paused, raises the cursor by exactly 1, renders the snapshot
\* at the new cursor and always appends that snapshot's narration to the log.
StepForwardAlwaysLogs ==
    [][ForwardStep =>
           /\ ~animator'.isPlaying
           /\ animator'.currentIndex = animator.currentIndex + 1
           /\ displayed'.state = AtCursor(animator')
           /\ executionLog' = Append(executionLog, AtCursor(animator').message)]_vars

\* C15 as the code has it: the narration is appended exactly when the new
\* cursor is above the watermark, which then becomes the new cursor;
\* otherwise log and watermark stay as they are.
StepForwardLogsAboveWatermark ==
    [][ForwardStep =>
           /\ ~animator'.isPlaying
           /\ ~HasPendingTimer(animator')
           /\ animator'.currentIndex = animator.currentIndex + 1
           /\ displayed'.state = AtCursor(animator')
           /\ IF animator'.currentIndex > animator.lastLoggedIndex
              THEN /\ executionLog' =
                          Append(executionLog, AtCursor(animator').message)
                   /\ animator'.lastLoggedIndex = animator'.currentIndex
              ELSE /\ executionLog' = executionLog
                   /\ animator'.lastLoggedIndex = animator.lastLoggedIndex]_vars

\* A stepForward has logged past a step that was never drawn, the cursor has
\* been stepped back, and the forward button is enabled for a step onto a
\* snapshot at or below the watermark.
StepForwardLogsAboveWatermarkWitness ==
    /\ animator # null
    /\ ~animator.isPlaying
    /\ ~controls.stepForward
    /\ animator.currentIndex + 1 <= animator.lastLoggedIndex
    /\ \E s \in 0..animator.lastLoggedIndex : s \notin
           {LogSteps(executionLog)[k] : k \in 1..Len(executionLog)}

\* The stepBackward handler runs with the cursor above 0.
BackwardStep ==
    /\ animator # null
    /\ animator.currentIndex > 0
    /\ StepBackward

\* C16: every stepBackward invoked with the cursor above 0 leaves the
\* controller paused with no scheduled advance pending, lowers the cursor by
\* exactly 1, renders the snapshot at the new cursor and leaves the log and
\* the watermark unchanged.
StepBackwardEffect ==
    [][BackwardStep =>
           /\ ~animator'.isPlaying
           /\ ~HasPendingTimer(animator')
           /\ orphans' = {}
           /\ animator'.currentIndex = animator.currentIndex - 1
           /\ displayed'.state = AtCursor(animator')
           /\ executionLog' = executionLog
           /\ animator'.lastLoggedIndex = animator.lastLoggedIndex]_vars

\* The cursor is below the watermark, which only stepBackward brings about:
\* the controller is paused on the snapshot at the cursor with the two steps
\* logged before still in the log.
StepBackwardEffectWitness ==
    /\ animator # null
    /\ ~animator.isPlaying
    /\ ~HasPendingTimer(animator)
    /\ animator.currentIndex < animator.lastLoggedIndex
    /\ displayed.state = AtCursor(animator)
    /\ Len(executionLog) >= 2

\* Finished: not playing, the cursor at the last index and the last snapshot
\* on the canvas.
Finished ==
    /\ animator # null
    /\ ~animator.isPlaying
    /\ animator.currentIndex = LastIndex
    /\ displayed.state = AtCursor(animator)

\* The play button is pressed on a paused Animator: togglePlayPause calls
\* play().
PlayStep ==
    /\ animator # null
    /\ ~animator.isPlaying
    /\ TogglePlayPause

\* C17: play() on a Finished controller rewinds the cursor to 0, resets the
\* watermark and empties the log before it renders: when it returns, the
\* snapshot rendered is snapshot 0, the log holds exactly the narration of
\* snapshot 0, the watermark is 0, and the cursor stands at 0 (a run of one
\* step, Finished again) or has moved on to 1 for the scheduled advance.
PlayFromFinishedRestarts ==
    [][(Finished /\ PlayStep) =>
           /\ displayed'.state = animator.stateHistory[1]
           /\ executionLog' = <<animator.stateHistory[1].message>>
           /\ animator'.lastLoggedIndex = 0
           /\ animator'.currentIndex = IF LastIndex = 0 THEN 0 ELSE 1
           /\ animator'.isPlaying = (LastIndex > 0)]_vars

\* Playback ran to the end of a run of three or more steps: "Simulation
\* finished." is shown, the log is full and the play button is enabled.
PlayFromFinishedRestartsWitness ==
    /\ Finished
    /\ ~controls.playPause
    /\ statusMessage.text = Text("Simulation finished.")
    /\ LastIndex >= 2
    /\ Len(executionLog) = LastIndex + 1

\* C18: play() restarts from index 0 and empties the log only from Finished;
\* from every other paused state it resumes at the current cursor: its first
\* render is the snapshot at that cursor, and log and watermark are as they
\* were, but for the narration of that snapshot.
PlayRestartsOnlyFromFinished ==
    [][(PlayStep /\ ~Finished) =>
           /\ displayed'.state = AtCursor(animator)
           /\ \/ /\ executionLog' = executionLog
                 /\ animator'.lastLoggedIndex = animator.lastLoggedIndex
              \/ /\ executionLog' = Append(executionLog, AtCursor(animator).message)
                 /\ animator'.lastLoggedIndex = animator.currentIndex]_vars

\* The timeouts of Animator a that are set and have not fired.
PendingAdvances(a) == (IF a.timer = "live" THEN 1 ELSE 0) + a.lost

\* C19: under every interleaving of startSimulation, play, pause,
\* stepForward, stepBackward and timer callbacks at most one scheduled advance
\* is pending, and no Animator replaced by a new run still owns one.
AtMostOneAdvancePending ==
    /\ orphans = {}
    /\ animator # null => PendingAdvances(animator) <= 1

\* Playback re-armed the timeout from a timer callback: two steps are logged,
\* the cursor has moved on to the third and one timeout is pending.
AtMostOneAdvancePendingWitness ==
    /\ animator # null
    /\ animator.isPlaying
    /\ PendingAdvances(animator) = 1
    /\ animator.lastLoggedIndex >= 1
    /\ animator.currentIndex >= 2

\* C20: after pause() has returned no scheduled advance fires: from a paused
\* controller every step other than play, stepForward, stepBackward and the
\* start of a new run leaves the cursor, the log, the watermark and the
\* displayed snapshot unchanged, and no timeout is pending.
PausedStaysPut ==
    [][(/\ animator # null
        /\ ~animator.isPlaying
        /\ ~(TogglePlayPause \/ StepForward \/ StepBackward \/ Start)) =>
           /\ ~HasPendingTimer(animator)
           /\ animator'.currentIndex = animator.currentIndex
           /\ executionLog' = executionLog
           /\ animator'.lastLoggedIndex = animator.lastLoggedIndex
           /\ displayed'.state = displayed.state]_vars

\* C21: in every reachable state of a controller over a non-empty History,
\* 0 <= cursor < |History| and -1 <= watermark < |History|.
CursorInRange ==
    (animator # null /\ Len(animator.stateHistory) > 0) =>
        /\ 0 <= animator.currentIndex
        /\ animator.currentIndex < Len(animator.stateHistory)
        /\ -1 <= animator.lastLoggedIndex
        /\ animator.lastLoggedIndex < Len(animator.stateHistory)

\* Paused with the cursor on the last index of a run of three or more steps
\* while the forward button is still enabled: the next click must not move it.
CursorInRangeWitness ==
    /\ animator # null
    /\ ~animator.isPlaying
    /\ LastIndex >= 2
    /\ animator.currentIndex = LastIndex
    /\ ~controls.stepForward

Playing == animator # null /\ animator.isPlaying

\* Playback has run to the end: the controller has paused itself on the last
\* snapshot, "Simulation finished." is shown, and the start button and the
\* configuration inputs are enabled again.
Completed ==
    /\ Finished
    /\ ~HasPendingTimer(animator)
    /\ statusMessage = [text |-> Text("Simulation finished."), type |-> "success"]
    /\ ~controls.start
    /\ ~controls.config

\* Playback was stopped by pause or by a step: not playing, the start button
\* still disabled.
Interrupted == animator # null /\ ~animator.isPlaying /\ controls.start

\* The cursor play() starts from: 0 when it finds the cursor at the end.
StartingCursor ==
    IF animator.currentIndex >= LastIndex THEN 0 ELSE animator.currentIndex

\* After a render of snapshot c by playback: Completed if c is the last,
\* otherwise playing with the cursor on c + 1 and one timeout set.
Advanced(c) ==
    /\ displayed'.state = animator'.stateHistory[c + 1]
    /\ IF c >= Len(animator'.stateHistory) - 1
       THEN Completed'
       ELSE /\ animator'.isPlaying
            /\ animator'.currentIndex = c + 1
            /\ PendingAdvances(animator') = 1

\* C22: with timer callbacks firing fairly, playback that no pause, step or
\* new run interrupts eventually renders the last snapshot and is then
\* Completed; play() renders the snapshot at its starting cursor and every
\* timer callback renders the snapshot at the cursor and moves on by one, so
\* the snapshots from the starting cursor to the last are rendered once each
\* in index order.
PlaybackCompletes ==
    /\ Playing ~> (Completed \/ Interrupted)
    /\ [][/\ PlayStep => Advanced(StartingCursor)
          /\ (Playing /\ TimerFires) => Advanced(animator.currentIndex)]_vars

\* Playback of a run of four steps has come to its end: completion is
\* signalled and the log holds all four narrations.
PlaybackCompletesWitness ==
    /\ Completed
    /\ LastIndex >= 3
    /\ Len(executionLog) = LastIndex + 1

\* The inputs the start handler has just read fail its validation.
InputRejected ==
    \/ Len(pages') = 0
    \/ framesInput' = NaN
    \/ framesInput'.mant <= 0
    \/ framesInput'.mant > 10

UnknownPolicy == algorithm \notin {"FIFO", "LRU", "OPTIMAL"}

\* C23: run() throws exactly when the policy is none of FIFO, LRU, OPTIMAL;
\* when startSimulation rejects its inputs or run() throws, it shows an error
\* status and leaves the History and the Animator (cursor, playing flag,
\* watermark) and the log as they were; otherwise the History becomes what
\* run() returned.
StartReportsErrors ==
    [][StartAgain =>
           /\ ~InputRejected =>
                  (Threw(run(pages', framesInput'.mant, algorithm)) <=> UnknownPolicy)
           /\ IF InputRejected \/ UnknownPolicy
              THEN /\ statusMessage'.type = "error"
                   /\ UNCHANGED <<fullStateHistory, animator, executionLog>>
              ELSE /\ fullStateHistory' =
                          run(pages', framesInput'.mant, algorithm).value
                   /\ animator'.stateHistory = fullStateHistory']_vars

\* The start button was pressed with an unknown policy selected after a run
\* had finished: the error of run() is shown and the finished run is kept.
StartReportsErrorsWitness ==
    /\ animator # null
    /\ algorithm = "NONE"
    /\ statusMessage = [text |-> [text |-> "Error: ",
                                  message |-> "Unknown algorithm selected."],
                        type |-> "error"]
    /\ animator.currentIndex = LastIndex
    /\ Len(executionLog) = LastIndex + 1
    /\ LastIndex >= 1

\* C24: setSpeed(v) for v in 100..2000 sets the delay to 2100 - v, which is
\* in 100..2000 and strictly decreasing in v, and changes nothing else of
\* the Animator, the log or the canvas: a timeout already set keeps the delay
\* it was set with, and every timeout set by play() or by a timer callback
\* is set with the delay current at that moment.
SetSpeedEffect ==
    [][/\ (Speed /\ animator # null) =>
              /\ animator' = [animator EXCEPT
                                  !.animationSpeed = 2100 - speedSlider']
              /\ animator'.animationSpeed \in 100..2000
              /\ \A v \in SliderValues :
                     v < speedSlider' =>
                         setSpeed(World(animator), v).a.animationSpeed
                             > animator'.animationSpeed
              /\ UNCHANGED <<executionLog, displayed>>
       /\ (/\ TimerFires \/ PlayStep \/ Start
           /\ animator' # null
           /\ animator'.timer = "live") =>
              animator'.timerDelay = animator'.animationSpeed]_vars

\* The slider was moved during playback: the timeout that is set still has
\* the delay of 1000 ms it was set with and the Animator has a shorter one.
SetSpeedEffectWitness ==
    /\ animator # null
    /\ animator.isPlaying
    /\ animator.timer = "live"
    /\ animator.timerDelay = 1000
    /\ animator.animationSpeed = 100
    /\ speedSlider = 2000

\* C25: Animator.stepForward with the cursor at the last index and
\* Animator.stepBackward with the cursor at 0 return normally and change
\* nothing: not the canvas, not the cursor, the log or the watermark.
StepPastBoundsNoOp ==
    animator # null =>
        /\ animator.currentIndex = LastIndex =>
               stepForward(World(animator)) = World(animator)
        /\ animator.currentIndex = 0 =>
               stepBackward(World(animator)) = World(animator)

\* Stepped back to index 0 of a run whose first three steps are logged: a
\* further stepBackward has a cursor to keep and a log to leave alone.
StepPastBoundsNoOpWitness ==
    /\ animator # null
    /\ ~animator.isPlaying
    /\ animator.currentIndex = 0
    /\ animator.lastLoggedIndex >= 2
    /\ displayed.state = AtCursor(animator)

\* The slots in which two FrameSets differ.
ChangedSlots(before, after) == {k \in 1..Len(after) : before[k] # after[k]}

\* C26: between consecutive snapshots, under every policy: a hit changes no
\* slot and evicts nothing; a fault with an empty slot changes exactly the
\* lowest-index empty slot, to the referenced page, and evicts nothing; a
\* fault without an empty slot changes exactly the slot of the victim, to
\* the referenced page, records the victim as evicted, and the victim is no
\* longer resident.  No slot goes from non-empty to empty.
FrameEffects ==
    Ran => \A i \in 1..Len(fullStateHistory) :
               LET before  == FramesBefore(i)
                   after   == fullStateHistory[i].frames
                   evicted == fullStateHistory[i].pageToEvict
                   changed == ChangedSlots(before, after)
               IN  /\ Len(after) = Len(before)
                   /\ \A k \in 1..Len(before) :
                          before[k] # null => after[k] # null
                   /\ IF fullStateHistory[i].isHit
                      THEN changed = {} /\ evicted = null
                      ELSE IF ~IsFull(before)
                      THEN /\ changed = {IndexOf(before, null) + 1}
                           /\ after[IndexOf(before, null) + 1] = pages[i]
                           /\ evicted = null
                      ELSE \E k \in 1..Len(before) :
                               /\ changed = {k}
                               /\ before[k] = evicted
                               /\ after[k] = pages[i]
                               /\ evicted \notin Resident(after)

\* C27: whenever the controller is not playing, the snapshot on the canvas is
\* the snapshot at the cursor; so after a pause during playback the cursor is
\* on the step last rendered and a stepForward shows the next one.
PausedShowsCursor ==
    (animator # null /\ ~animator.isPlaying) =>
        displayed.state = AtCursor(animator)

\* C28: between events a timeout is set exactly when the Animator is
\* playing, and the watermark is the step index of the last entry of the
\* log, -1 exactly when the log is empty.
TimerIffPlaying ==
    animator # null =>
        /\ HasPendingTimer(animator) <=> animator.isPlaying
        /\ animator.lastLoggedIndex =
               IF executionLog = <<>> THEN -1
               ELSE LogSteps(executionLog)[Len(executionLog)]

\* A stepForward from playback has logged past a step that was never drawn:
\* paused with no timeout set, the last entry of the log two steps after the
\* one before it.
TimerIffPlayingWitness ==
    /\ animator # null
    /\ ~animator.isPlaying
    /\ ~HasPendingTimer(animator)
    /\ Len(executionLog) >= 2
    /\ LogSteps(executionLog)[Len(executionLog)]
           = LogSteps(executionLog)[Len(executionLog) - 1] + 2

==============================================================================
